---------------------------- MODULE Spec2Model ----------------------------
(***************************************************************************)
(* A model of qiskit_aqua/algorithms/single_sample/qpe/qpe.py: the QPE     *)
(* algorithm object, its normalisation of the operator (_setup_qpe), the   *)
(* assembly of the circuit (_construct_qpe_evolution), and the decoding of *)
(* the measurement histogram (_compute_energy), driven by run().           *)
(*                                                                         *)
(* Scalars are exact rationals <<numerator, denominator>> in lowest terms  *)
(* with a positive denominator; a coefficient is a complex number          *)
(* <<re, im>> of two rationals.  The rational <<0, 0>> stands for the      *)
(* ZeroDivisionError that Python raises on a division by zero.             *)
(***************************************************************************)
EXTENDS Integers, Sequences, FiniteSets, TLC

\* ------------------------------------------------------------------ bounds
\* Longest term list an operator is constructed with.
MaxTerms == 2
\* Most calls of run() on one instance.
MaxRuns == 2
\* Largest num_ancillae.
MaxAncillae == 2
\* Most shots a backend runs a circuit for.
MaxShots == 3
\* Largest expansion_order.
MaxOrder == 2
\* Largest num_time_slices.
MaxTimeSlices == 1

\* ------------------------------------------------------- exact arithmetic
AbsInt(n) == IF n < 0 THEN -n ELSE n

RECURSIVE GCD(_, _)
GCD(a, b) == IF b = 0 THEN a ELSE GCD(b, a % b)

RNorm(n, d) ==
    LET g == GCD(AbsInt(n), AbsInt(d))
        s == IF d < 0 THEN -1 ELSE 1
    IN  <<(s * n) \div g, (s * d) \div g>>

R(n) == <<n, 1>>
ZeroDivision == <<0, 0>>
RAdd(a, b) == RNorm(a[1] * b[2] + b[1] * a[2], a[2] * b[2])
RSub(a, b) == RNorm(a[1] * b[2] - b[1] * a[2], a[2] * b[2])
RMul(a, b) == RNorm(a[1] * b[1], a[2] * b[2])
RDiv(a, b) == IF b[1] = 0 THEN ZeroDivision ELSE RNorm(a[1] * b[2], a[2] * b[1])
RAbs(a) == <<AbsInt(a[1]), a[2]>>
RLeq(a, b) == a[1] * b[2] <= b[1] * a[2]

RECURSIVE Pow2(_)
Pow2(n) == IF n = 0 THEN 1 ELSE 2 * Pow2(n - 1)

\* A complex coefficient and Python's operations on it.
Cx(re, im) == <<re, im>>
Re(c) == c[1]
Im(c) == c[2]
CAdd(a, b) == <<RAdd(a[1], b[1]), RAdd(a[2], b[2])>>
CScale(c, r) == <<RMul(c[1], r), RMul(c[2], r)>>
\* abs(c): the rational r >= 0 with r^2 = re^2 + im^2.
CAbs(c) ==
    IF Im(c) = R(0) THEN RAbs(Re(c))
    ELSE IF Re(c) = R(0) THEN RAbs(Im(c))
    ELSE LET sq == RAdd(RMul(Re(c), Re(c)), RMul(Im(c), Im(c)))
         IN  CHOOSE r \in {<<n, d>> : n \in 0..sq[1], d \in 1..sq[2]} :
                 RNorm(r[1], r[2]) = r /\ RMul(r, r) = sq

RECURSIVE RSum(_)
RSum(s) == IF s = <<>> THEN R(0) ELSE RAdd(Head(s), RSum(Tail(s)))

\* ------------------------------------------------------------ data model
\* A Pauli descriptor is the pair of boolean vectors z and x (Pauli.z, Pauli.x).
Pauli(zs, xs) == [z |-> zs, x |-> xs]
PauliI == Pauli(<<FALSE>>, <<FALSE>>)
PauliX == Pauli(<<FALSE>>, <<TRUE>>)
PauliZ == Pauli(<<TRUE>>, <<FALSE>>)
PauliLabels == {PauliI, PauliX, PauliZ}

\* A weighted Pauli term [coefficient, descriptor]; f is the list of symbolic
\* duration factors a Suzuki expansion has put on the term (empty otherwise).
Term(c, p) == [c |-> c, p |-> p, f |-> <<>>]

\* self._circuit is None: an assembled circuit is never empty.
None == <<>>

\* ------------------------------------------- Operator (qiskit_aqua.Operator)
IndexOf(paulis, p) ==
    LET hits == {i \in 1..Len(paulis) : paulis[i].p = p}
    IN  IF hits = {} THEN 0 ELSE CHOOSE i \in hits : \A j \in hits : i <= j

\* Merge rhs into lhs term by term: a term whose descriptor lhs already holds
\* adds its coefficient there, any other term is appended.  A term whose
\* coefficient becomes zero is kept.
RECURSIVE Combine(_, _)
Combine(lhs, rhs) ==
    IF rhs = <<>> THEN lhs
    ELSE LET t == Head(rhs)
             k == IndexOf(lhs, t.p)
         IN  IF k = 0
             THEN Combine(Append(lhs, t), Tail(rhs))
             ELSE Combine([lhs EXCEPT ![k].c = CAdd(@, t.c)], Tail(rhs))

\* Operator._simplify_paulis
SimplifyPaulis(paulis) == Combine(<<>>, paulis)

\* Operator.__iadd__
InplaceAdd(lhs, rhs) == Combine(lhs, rhs)

\* Operator.num_qubits
NumQubits(paulis) == IF paulis = <<>> THEN 0 ELSE Len(paulis[1].p.z)

\* Operator.reorder_paulis: 'default' keeps the order, 'random' permutes it.
TermOrders(n) == {f \in [1..n -> 1..n] : \A i, j \in 1..n : f[i] = f[j] => i = j}
ReorderPaulis(paulis, grouping, perm) ==
    IF grouping = "random" THEN [i \in 1..Len(paulis) |-> paulis[perm[i]]] ELSE paulis

\* Operator._suzuki_expansion_slice_pauli_list(pauli_list, 1, order): order 1 is
\* the plain list; a higher order nests the next lower one, two side copies of
\* duration factor pk on either side of a middle copy of factor 1 - 4 pk.
ScaleSlice(list, factor) == [i \in 1..Len(list) |-> [list[i] EXCEPT !.f = Append(@, factor)]]
RECURSIVE SuzukiExpansion(_, _)
SuzukiExpansion(list, order) ==
    IF order <= 1 THEN list
    ELSE LET lower == SuzukiExpansion(list, order - 1)
             side == ScaleSlice(lower, <<"pk", order>>)
             middle == ScaleSlice(lower, <<"1-4pk", order>>)
         IN  side \o side \o middle \o side \o side

\* --------------------------------------------------------- _setup_qpe parts
\* sum([abs(p[0]) for p in self._operator.paulis])
Translation(paulis) == RSum([i \in 1..Len(paulis) |-> CAbs(paulis[i].c)])

\* A guarded division: a zero translation is given the stretch 0.5.
StretchGuarded(translation) ==
    IF translation = R(0) THEN <<1, 2>> ELSE RDiv(<<1, 2>>, translation)

\* 1 / translation.
StretchWhole(translation) == RDiv(R(1), translation)

\* 0.5 / translation
Stretch(translation) == RDiv(<<1, 2>>, translation)

\* Pauli(np.zeros(num_qubits), np.zeros(num_qubits)) with the translation as
\* its coefficient.
TranslationOp(translation, n) ==
    <<Term(Cx(translation, R(0)), Pauli([i \in 1..n |-> FALSE], [i \in 1..n |-> FALSE]))>>

\* for p in self._operator._paulis: p[0] = p[0] * stretch
StretchPaulis(paulis, stretch) ==
    [i \in 1..Len(paulis) |-> [paulis[i] EXCEPT !.c = CScale(@, stretch)]]

IsIdentity(p) ==
    /\ \A i \in 1..Len(p.z) : ~p.z[i]
    /\ \A i \in 1..Len(p.x) : ~p.x[i]

Identities(paulis) == {i \in 1..Len(paulis) : IsIdentity(paulis[i].p)}

\* The identity scan taking the imaginary part of the coefficient.
AncillaPhaseCoefImag(paulis, old) ==
    LET ids == Identities(paulis)
    IN  IF ids = {} THEN old
        ELSE Im(paulis[CHOOSE i \in ids : \A j \in ids : i <= j].c)

\* The coefficient the identity scan leaves in _ancilla_phase_coef: the real
\* part of the first identity term's, or the old value when there is none.
AncillaPhaseCoef(paulis, old) ==
    LET ids == Identities(paulis)
    IN  IF ids = {} THEN old
        ELSE Re(paulis[CHOOSE i \in ids : \A j \in ids : i <= j].c)

\* ------------------------------------------- _construct_qpe_evolution parts
\* The slice list without the shortcut for a list of one term.
SlicePauliListNoShortcut(pauli_list, mode, order) ==
    IF mode = "trotter" THEN [err |-> "", list |-> pauli_list]
    ELSE IF mode = "suzuki" THEN [err |-> "", list |-> SuzukiExpansion(pauli_list, order)]
    ELSE [err |-> "ValueError: Unrecognized expansion mode", list |-> <<>>]

\* The slice list of lines 175-187: [err, list].
SlicePauliList(pauli_list, mode, order) ==
    IF Len(pauli_list) = 1 THEN [err |-> "", list |-> pauli_list]
    ELSE IF mode = "trotter" THEN [err |-> "", list |-> pauli_list]
    ELSE IF mode = "suzuki" THEN [err |-> "", list |-> SuzukiExpansion(pauli_list, order)]
    ELSE [err |-> "ValueError: Unrecognized expansion mode", list |-> <<>>]

\* qc.u2(0, np.pi, a): one gate on every ancilla.
Superposition(n) == [j \in 1..n |-> [gate |-> "u2", qubit |-> j - 1]]

\* The controlled evolution on ancilla i and the phase shift that follows it;
\* an angle or a duration is kept in units of 2 pi.
PhaseAngleUnweighted(coef, i) == coef
PhaseAngle(coef, i) == RMul(coef, R(Pow2(i)))
Kickback(slice_pauli_list, slices, coef, i) ==
    << [gate |-> "evolution", paulis |-> slice_pauli_list, evo_time |-> R(-1),
        num_time_slices |-> slices, ctl_idx |-> i],
       [gate |-> "u1", angle |-> PhaseAngle(coef, i), qubit |-> i] >>

RECURSIVE Kickbacks(_, _, _, _, _)
Kickbacks(slice_pauli_list, slices, coef, i, n) ==
    IF i >= n THEN <<>>
    ELSE Kickback(slice_pauli_list, slices, coef, i)
         \o Kickbacks(slice_pauli_list, slices, coef, i + 1, n)

Measurement(n) ==
    << [gate |-> "add_register", reg |-> "c", size |-> n], [gate |-> "barrier", reg |-> "a"] >>
    \o [j \in 1..n |-> [gate |-> "measure", qubit |-> j - 1, cbit |-> j - 1]]

\* The circuit of lines 162-208 for a slice list.
AssembleCircuit(slice_pauli_list, slices, coef, n) ==
    << [gate |-> "state_in"], [gate |-> "add_register", reg |-> "a", size |-> n] >>
    \o Superposition(n)
    \o Kickbacks(slice_pauli_list, slices, coef, 0, n)
    \o << [gate |-> "iqft"] >>
    \o Measurement(n)

\* _construct_qpe_evolution: [err, circuit, pauli_list]; self._circuit is set
\* on the last line only, so an error leaves it as it was.
construct_qpe_evolution(paulis, coef, cfg, perm, old_circuit) ==
    LET pauli_list == ReorderPaulis(paulis, cfg.paulis_grouping, perm)
        sl == SlicePauliList(pauli_list, cfg.expansion_mode, cfg.expansion_order)
    IN  IF sl.err # ""
        THEN [err |-> sl.err, circuit |-> old_circuit, pauli_list |-> pauli_list]
        ELSE [err |-> "",
              circuit |-> AssembleCircuit(sl.list, cfg.num_time_slices, coef, cfg.num_ancillae),
              pauli_list |-> pauli_list]

\* ------------------------------------------------------------- _setup_qpe
\* self._ret[key] = value
Put(d, key, value) == [k \in DOMAIN d \cup {key} |-> IF k = key THEN value ELSE d[k]]

\* The operator that lines 216-231 leave: simplified, translated, stretched.
NormalizedPaulis(paulis, translation, stretch) ==
    LET simplified == SimplifyPaulis(paulis)
        translation_op == SimplifyPaulis(TranslationOp(translation, NumQubits(paulis)))
    IN  StretchPaulis(InplaceAdd(simplified, translation_op), stretch)

\* The translation of the operator simplified first.
RecordedTranslationMerged(paulis) == Translation(SimplifyPaulis(paulis))

\* The translation line 212 records, of the operator as to_paulis() leaves it.
RecordedTranslation(paulis) == Translation(paulis)

\* _setup_qpe: [err, operator, ret, coef, circuit, pauli_list].
setup_qpe(paulis, ret0, coef0, cfg, perm, old_circuit, old_list) ==
    LET translation == RecordedTranslation(paulis)
        ret1 == Put(ret0, "translation", translation)
        stretch == Stretch(translation)
    IN  IF stretch = ZeroDivision
        THEN [err |-> "ZeroDivisionError", operator |-> paulis, ret |-> ret1,
              coef |-> coef0, circuit |-> old_circuit, pauli_list |-> old_list]
        ELSE LET ret2 == Put(ret1, "stretch", stretch)
                 normalized == NormalizedPaulis(paulis, translation, stretch)
                 coef == AncillaPhaseCoef(normalized, coef0)
             IN  IF Cardinality(Identities(normalized)) > 1
                 THEN [err |-> "RuntimeError: Multiple identity pauli terms are present",
                       operator |-> normalized, ret |-> ret2, coef |-> coef,
                       circuit |-> old_circuit, pauli_list |-> old_list]
                 ELSE LET built == construct_qpe_evolution(normalized, coef, cfg, perm, old_circuit)
                      IN  [err |-> built.err, operator |-> normalized, ret |-> ret2,
                           coef |-> coef, circuit |-> built.circuit,
                           pauli_list |-> built.pauli_list]

\* ---------------------------------------------------------- _compute_energy
\* Python's order on strings of '0' and '1'.
RECURSIVE LexLess(_, _)
LexLess(s, t) ==
    IF t = <<>> THEN FALSE
    ELSE IF s = <<>> THEN TRUE
    ELSE IF Head(s) # Head(t) THEN Head(s) < Head(t)
    ELSE LexLess(Tail(s), Tail(t))

\* Python's order on the tuples (count, bitstring).
PairLess(a, b) == a[1] < b[1] \/ (a[1] = b[1] /\ LexLess(a[2], b[2]))

\* sorted([(rd[k], k) for k in rd])[::-1]
RECURSIVE SortedDescending(_)
SortedDescending(pairs) ==
    IF pairs = {} THEN <<>>
    ELSE LET top == CHOOSE a \in pairs : \A b \in pairs \ {a} : PairLess(b, a)
         IN  <<top>> \o SortedDescending(pairs \ {top})

Measurements(rd) == SortedDescending({<<rd[k], k>> : k \in DOMAIN rd})

Reverse(s) == [i \in 1..Len(s) |-> s[Len(s) + 1 - i]]

\* rets[0][-1], the bit order kept.
TopMeasurementLabelUnreversed(rets) == rets[1][2]

\* rets[0][-1][::-1]
TopMeasurementLabel(rets) == Reverse(rets[1][2])

\* sum of 1 / 2 ** p times int(n) over zip(p = 1..num_ancillae, n in ret)
TopMeasurementDecimal(label, n) ==
    LET m == IF Len(label) < n THEN Len(label) ELSE n
    IN  RSum([p \in 1..m |-> RMul(<<1, Pow2(p)>>, R(label[p]))])

\* retval / stretch - translation
Energy(retval, stretch, translation) == RSub(RDiv(retval, stretch), translation)

\* A check that knows the statevector backend by another name.
BackendRejectedByName(backend) == backend = "statevector_simulator"

\* QuantumAlgorithm.is_statevector_backend(self.backend) raises the ValueError.
BackendRejected(backend) == backend = "statevector"

\* Lines 256-267 on the counts rd the backend returned.
Decode(rd, ret0, n) ==
    LET rets == Measurements(rd)
        label == TopMeasurementLabel(rets)
        retval == TopMeasurementDecimal(label, n)
        ret1 == Put(ret0, "measurements", rets)
        ret2 == Put(ret1, "top_measurement_label", label)
        ret3 == Put(ret2, "top_measurement_decimal", retval)
    IN  Put(ret3, "energy", Energy(retval, ret3["stretch"], ret3["translation"]))

\* ------------------------------------------------------------------ state
VARIABLES
    operator,            \* self._operator.paulis
    params,              \* num_ancillae, num_time_slices, paulis_grouping,
                         \* expansion_mode, expansion_order
    ancilla_phase_coef,  \* self._ancilla_phase_coef
    circuit,             \* self._circuit
    ret,                 \* self._ret
    backend,             \* self.backend: "qasm" or "statevector"
    shots,               \* the shots the backend runs a circuit for
    execute_calls,       \* how often the backend was asked to execute
    counts,              \* result.get_counts of the last execution
    outcome,             \* what the last run() raised, "ok" when it returned
    runs,                \* calls of run() so far
    pauli_list           \* the reordered term list of the last assembly

vars == <<operator, params, ancilla_phase_coef, circuit, ret, backend, shots,
          execute_calls, counts, outcome, runs, pauli_list>>

\* ----------------------------------------------------------------- inputs
RealCoefficients == {Cx(R(-1), R(0)), Cx(R(0), R(0)), Cx(R(1), R(0))}
ComplexCoefficients == RealCoefficients \cup {Cx(R(0), R(1))}

Terms(coefficients, labels) == {Term(c, p) : c \in coefficients, p \in labels}
Operators(terms, longest) == UNION {[1..k -> terms] : k \in 0..longest}

RECURSIVE Bitstrings(_)
Bitstrings(n) ==
    IF n = 0 THEN {<<>>} ELSE {<<b>> \o s : b \in {0, 1}, s \in Bitstrings(n - 1)}

\* The bitstring a register of n bits reads as the number v.
RECURSIVE BitsValue(_)
BitsValue(b) == IF b = <<>> THEN 0 ELSE 2 * BitsValue(SubSeq(b, 1, Len(b) - 1)) + b[Len(b)]

\* The ways to spread s shots over k outcomes.
RECURSIVE CountVectors(_, _)
CountVectors(k, s) ==
    IF k = 0 THEN (IF s = 0 THEN {<<>>} ELSE {})
    ELSE UNION {{<<c>> \o v : v \in CountVectors(k - 1, s - c)} : c \in 0..s}

\* The histograms a backend can return for n measured bits and s shots: a
\* count for every bitstring seen at least once, the counts adding up to s.
Histograms(n, s) ==
    {[b \in {x \in Bitstrings(n) : v[BitsValue(x) + 1] > 0} |-> v[BitsValue(b) + 1]] :
        v \in CountVectors(Pow2(n), s)}

Backends == {"qasm", "statevector"}
ExpansionModes == {"trotter", "suzuki", "other"}
Groupings == {"default", "random"}

\* QPE.__init__ for an operator and parameters drawn from the given sets, and
\* the backend the caller selected.
InitWith(operators, ancillae, slices, groupings, modes, orders, shotses) ==
    /\ operator \in operators
    /\ params \in [num_ancillae : ancillae, num_time_slices : slices,
                    paulis_grouping : groupings, expansion_mode : modes,
                    expansion_order : orders]
    /\ ancilla_phase_coef = R(1)
    /\ circuit = None
    /\ ret = <<>>
    /\ backend \in Backends
    /\ shots \in shotses
    /\ execute_calls = 0
    /\ counts = <<>>
    /\ outcome = ""
    /\ runs = 0
    /\ pauli_list = <<>>

\* ---------------------------------------------------------------- actions
\* _compute_energy up to the call of execute, for the term order perm that
\* reorder_paulis draws: [err, operator, ret, coef, circuit, pauli_list].
BeforeExecute(perm) ==
    LET s == IF circuit = None
             THEN setup_qpe(operator, ret, ancilla_phase_coef, params, perm,
                            circuit, pauli_list)
             ELSE [err |-> "", operator |-> operator, ret |-> ret,
                   coef |-> ancilla_phase_coef, circuit |-> circuit,
                   pauli_list |-> pauli_list]
    IN  IF s.err = "" /\ BackendRejected(backend)
        THEN [s EXCEPT !.err = "ValueError: Selected backend does not support measurements"]
        ELSE s

\* run(): _compute_energy, with the counts rd the backend returns when it is
\* asked to execute.
Run(perm) ==
    /\ runs < MaxRuns
    /\ LET s == BeforeExecute(perm)
       IN  /\ operator' = s.operator
           /\ ancilla_phase_coef' = s.coef
           /\ circuit' = s.circuit
           /\ pauli_list' = s.pauli_list
           /\ IF s.err = ""
              THEN /\ \E rd \in Histograms(params.num_ancillae, shots) :
                         /\ counts' = rd
                         /\ ret' = Decode(rd, s.ret, params.num_ancillae)
                   /\ execute_calls' = execute_calls + 1
                   /\ outcome' = "ok"
              ELSE /\ ret' = s.ret
                   /\ UNCHANGED <<execute_calls, counts>>
                   /\ outcome' = s.err
    /\ runs' = runs + 1
    /\ UNCHANGED <<params, backend, shots>>

\* The caller selects another backend between two runs.
SetBackend(b) ==
    /\ b # backend
    /\ backend' = b
    /\ UNCHANGED <<operator, params, ancilla_phase_coef, circuit, ret, shots,
                   execute_calls, counts, outcome, runs, pauli_list>>

\* How many terms reorder_paulis shuffles in the next run: those of the
\* normalised operator, when the run assembles and the grouping is 'random'.
Shuffled ==
    IF circuit = None /\ params.paulis_grouping = "random"
    THEN Len(InplaceAdd(SimplifyPaulis(operator), TranslationOp(R(0), NumQubits(operator))))
    ELSE 0

Next ==
    \/ \E perm \in TermOrders(Shuffled) : Run(perm)
    \/ \E b \in Backends : SetBackend(b)

Init ==
    InitWith(Operators(Terms(RealCoefficients, PauliLabels), MaxTerms),
             {1}, {1}, Groupings, ExpansionModes, 1..MaxOrder, {1})

Spec == Init /\ [][Next]_vars

\* Operators with complex coefficients; the expansion mode is a recognised one.
InitComplex ==
    InitWith(Operators(Terms(ComplexCoefficients, PauliLabels), MaxTerms),
             {1}, {1}, {"default"}, {"trotter", "suzuki"}, {1}, {1})

SpecComplex == InitComplex /\ [][Next]_vars

\* Every parameter of the assembly, for a few operators.
InitAssemble ==
    InitWith(Operators(Terms({Cx(R(-1), R(0)), Cx(R(1), R(0))}, {PauliI, PauliX}), MaxTerms),
             1..MaxAncillae, 0..MaxTimeSlices, Groupings, ExpansionModes, 1..MaxOrder, {1})

SpecAssemble == InitAssemble /\ [][Next]_vars

\* Every histogram of up to MaxShots shots on up to MaxAncillae ancillae, for
\* an operator of translation 1 and one of translation 2.
InitDecode ==
    InitWith({<<Term(Cx(R(-1), R(0)), PauliX)>>,
              <<Term(Cx(R(1), R(0)), PauliX), Term(Cx(R(1), R(0)), PauliZ)>>},
             1..MaxAncillae, {1}, {"default"}, {"trotter"}, {1}, 1..MaxShots)

SpecDecode == InitDecode /\ [][Next]_vars

\* ----------------------------------------------------------------- claims
BackendError == "ValueError: Selected backend does not support measurements"
ModeError == "ValueError: Unrecognized expansion mode"
ResultKeys == {"measurements", "top_measurement_label", "top_measurement_decimal", "energy"}

\* A step that is a call of run(), and one that calls _setup_qpe.
RunStep == runs' = runs + 1
Normalizing == RunStep /\ circuit = None

Has(key) == key \in DOMAIN ret

RECURSIVE SumOfMagnitudes(_)
SumOfMagnitudes(paulis) ==
    IF Len(paulis) = 0 THEN R(0)
    ELSE RAdd(SumOfMagnitudes(SubSeq(paulis, 1, Len(paulis) - 1)), CAbs(paulis[Len(paulis)].c))

AllZero(paulis) == \A i \in 1..Len(paulis) : paulis[i].c = Cx(R(0), R(0))

\* The bits read as a base-2 fraction, the first worth 1/2.
RECURSIVE BinaryFraction(_)
BinaryFraction(bits) ==
    IF bits = <<>> THEN R(0)
    ELSE RMul(<<1, 2>>, RAdd(R(Head(bits)), BinaryFraction(Tail(bits))))

\* C1: after a run that returned, the top measurement is a bitstring of the
\* histogram that no other bitstring outnumbers, top_measurement_label is that
\* bitstring in reverse bit order, top_measurement_decimal is the label read as
\* a binary fraction (first character 1/2, second 1/4, ...), and energy is
\* top_measurement_decimal / stretch - translation.
C1_Decoding ==
    outcome = "ok" =>
        /\ DOMAIN counts # {}
        /\ ResultKeys \subseteq DOMAIN ret
        /\ \E top \in DOMAIN counts :
              /\ \A k \in DOMAIN counts : counts[k] <= counts[top]
              /\ ret["measurements"][1] = <<counts[top], top>>
              /\ Len(ret["top_measurement_label"]) = Len(top)
              /\ \A p \in 1..Len(top) :
                     ret["top_measurement_label"][p] = top[Len(top) + 1 - p]
        /\ ret["top_measurement_decimal"] = BinaryFraction(ret["top_measurement_label"])
        /\ RMul(RAdd(ret["energy"], ret["translation"]), ret["stretch"])
               = ret["top_measurement_decimal"]

\* The histogram {"01": 1, "10": 2} on two ancillae with translation 2 and
\* stretch 0.25: top "10", label "01", decimal 0.25, energy -1.
C1_Example ==
    /\ outcome = "ok"
    /\ params.num_ancillae = 2
    /\ DOMAIN counts = {<<0, 1>>, <<1, 0>>}
    /\ counts[<<0, 1>>] = 1
    /\ counts[<<1, 0>>] = 2
    /\ ret["top_measurement_label"] = <<0, 1>>
    /\ ret["top_measurement_decimal"] = <<1, 4>>
    /\ ret["translation"] = R(2)
    /\ ret["stretch"] = <<1, 4>>
    /\ ret["energy"] = R(-1)

C3_ZeroOperatorAborts ==
    [][(Normalizing /\ AllZero(operator)) =>
          /\ outcome' = "ZeroDivisionError"
          /\ circuit' = None
          /\ execute_calls' = execute_calls
          /\ DOMAIN ret' \cap ResultKeys = {}]_vars

\* A zero operator of at least one term whose run was retried.
C3_ZeroOperatorRetried ==
    /\ outcome = "ZeroDivisionError"
    /\ operator # <<>>
    /\ AllZero(operator)
    /\ runs = 2
    /\ execute_calls = 0

\* C4: a run on the statevector backend, the first or a later one, fails and
\* does not ask the backend to execute; the error is the one of the backend
\* check exactly when the circuit stands assembled, so it is raised after the
\* assembly and not within it.
C4_StatevectorRejected ==
    [][(RunStep /\ backend = "statevector") =>
          /\ outcome' # "ok"
          /\ execute_calls' = execute_calls
          /\ outcome' = BackendError <=> circuit' # None]_vars

\* A second run, on the statevector backend, after a first that executed.
C4_LaterRunRejected ==
    /\ outcome = BackendError
    /\ backend = "statevector"
    /\ runs = 2
    /\ execute_calls = 1

\* C5, as claimed: the magnitudes of the coefficients of the normalised
\* operator add up to 0.5.
C5_MagnitudesSumToHalf == circuit # None => SumOfMagnitudes(operator) = <<1, 2>>

\* C5, amended: after normalisation stretch * translation is 0.5 and the
\* magnitudes of the coefficients of the normalised operator add up to at
\* most 1.
C5_MagnitudesAtMostOne ==
    circuit # None =>
        /\ RMul(ret["stretch"], ret["translation"]) = <<1, 2>>
        /\ RLeq(SumOfMagnitudes(operator), R(1))

\* An operator of one X term normalised: the magnitudes add up to 1.
C5_SumIsOne ==
    /\ circuit # None
    /\ Len(operator) = 2
    /\ operator[1].p = PauliX
    /\ operator[1].c # Cx(R(0), R(0))
    /\ SumOfMagnitudes(operator) = R(1)

\* C6: a run that raises adds no field to the result record.
C6_NoPartialRecord ==
    [][(RunStep /\ outcome' # "ok") => DOMAIN ret' \subseteq DOMAIN ret]_vars

\* C7: when the reordered term list has one term, no expansion-mode error is
\* raised, the circuit is assembled, and every controlled evolution is given
\* that list unchanged, whatever expansion_mode and expansion_order are.
C7_SingleTermUnsliced ==
    Len(pauli_list) = 1 =>
        /\ circuit # None
        /\ outcome # ModeError
        /\ \E k \in 1..Len(circuit) : circuit[k].gate = "evolution"
        /\ \A k \in 1..Len(circuit) :
               circuit[k].gate = "evolution" => circuit[k].paulis = pauli_list

\* A one-term list assembled under a mode other than trotter, at order 2.
C7_SingleTermExpanded ==
    /\ Len(pauli_list) = 1
    /\ params.expansion_mode # "trotter"
    /\ params.expansion_order = 2
    /\ outcome = "ok"

\* C8: once the operator is normalised it holds at most one identity term;
\* _ancilla_phase_coef is the real part of that term's coefficient, and 0 when
\* there is no identity term.
C8_IdentityPhase ==
    Has("stretch") =>
        LET ids == Identities(operator)
        IN  /\ Cardinality(ids) <= 1
            /\ \A i \in ids : ancilla_phase_coef = Re(operator[i].c)
            /\ ids = {} => ancilla_phase_coef = R(0)

\* An identity coefficient that cancelled the translation: the phase is 0.
C8_CancelledIdentity ==
    /\ circuit # None
    /\ \E i \in Identities(operator) : operator[i].c = Cx(R(0), R(0))
    /\ ancilla_phase_coef = R(0)

\* C9: the assembled circuit is, in this order and nothing else: the state
\* preparation, the ancilla register with a u2 on every ancilla, for each
\* ancilla i ascending one controlled evolution (duration -2 pi,
\* num_time_slices slices, controlled on i) followed by one u1 of angle
\* 2 pi * _ancilla_phase_coef * 2^i on ancilla i, the inverse transform, the
\* classical register, a barrier, and the measurement of every ancilla.
C9_CircuitOrder ==
    circuit # None =>
        LET n == params.num_ancillae
        IN  /\ Len(circuit) = 4 * n + 5
            /\ circuit[1].gate = "state_in"
            /\ circuit[2] = [gate |-> "add_register", reg |-> "a", size |-> n]
            /\ \A j \in 0..(n - 1) : circuit[3 + j] = [gate |-> "u2", qubit |-> j]
            /\ \A i \in 0..(n - 1) :
                  /\ circuit[n + 3 + 2 * i].gate = "evolution"
                  /\ circuit[n + 3 + 2 * i].ctl_idx = i
                  /\ circuit[n + 3 + 2 * i].evo_time = R(-1)
                  /\ circuit[n + 3 + 2 * i].num_time_slices = params.num_time_slices
                  /\ circuit[n + 4 + 2 * i] =
                         [gate |-> "u1", angle |-> RMul(ancilla_phase_coef, R(2 ^ i)),
                          qubit |-> i]
            /\ circuit[3 * n + 3].gate = "iqft"
            /\ circuit[3 * n + 4] = [gate |-> "add_register", reg |-> "c", size |-> n]
            /\ circuit[3 * n + 5] = [gate |-> "barrier", reg |-> "a"]
            /\ \A j \in 0..(n - 1) :
                  circuit[3 * n + 6 + j] = [gate |-> "measure", qubit |-> j, cbit |-> j]

\* A circuit on two ancillae with a phase that is not zero.
C9_TwoAncillae ==
    /\ circuit # None
    /\ params.num_ancillae = 2
    /\ params.num_time_slices = 1
    /\ ancilla_phase_coef # R(0)
    /\ Len(pauli_list) = 2

\* C10: once translation and stretch are recorded, no later step changes the
\* operator, the translation or the stretch.
C10_NormalizedOnce ==
    [][Has("stretch") =>
          /\ operator' = operator
          /\ ret'["translation"] = ret["translation"]
          /\ ret'["stretch"] = ret["stretch"]]_vars

====
